---- MODULE Spec2Model ----
(***************************************************************************)
(* nio-llm: a Matrix client that answers messages mentioning it with the   *)
(* output of a language model.                                             *)
(*                                                                         *)
(* Spec models the asyncio revision, src/src/nio_llm/client.py: the event  *)
(* loop runs one coroutine at a time until it suspends; sync_forever       *)
(* dispatches each event of a sync response to message_callback, and the   *)
(* typing indicator is a background task (typing_loop).  pc is where the   *)
(* client's main coroutine stands, tasks[k] the k-th typing task.          *)
(***************************************************************************)
EXTENDS Integers, Sequences, FiniteSets, TLC

\* ------------------------------------------------------------- bounds
\* events delivered by sync_forever in one run
MaxEvents == 2
\* sleeps of one typing task that run to their end
MaxSleeps == 1
\* the history_size argument of the constructor
HistorySize == 1
\* typing tasks created in one run
MaxTasks == 2
\* the time the client was created at
SpawnTime == 1
\* entries of a history handed to the prompt assembly on its own
MaxTurns == 2

\* ------------------------------------------------------ configuration
uid == "@bot:example.org"
username == "bot"
Room == "!monitored"
OtherRoom == "!other"
Alice == "@alice:example.org"
Senders == {uid, Alice}
Rooms == {Room, OtherRoom}
\* an event older than the client, and one of the client's own millisecond
Timestamps == {SpawnTime - 1, SpawnTime}

\* ------------------------------------------------------------- events
\* A body or formatted_body is a sequence of pieces: plain text, the bare
\* display name, the anchor that mentions the bot.
MentionAnchor == "<a href=\"https://matrix.to/#/@bot:example.org\">bot</a>"

NoKeys == [k \in {} |-> 0]

\* `needle in haystack` on a body made of pieces
Contains(haystack, needle) == \E i \in DOMAIN haystack : haystack[i] = needle

\* the relation metadata an event may carry under "m.relates_to": a thread
\* reply, a reaction, and a plain reply, which has no rel_type
Relations ==
    { ("rel_type" :> "m.thread") @@ ("event_id" :> "$root"),
      ("rel_type" :> "m.annotation") @@ ("event_id" :> "$root"),
      ("m.in_reply_to" :> "$root") }

Html == "org.matrix.custom.html"

\* the rich-text part of a content: none, a mention, the bare display name,
\* a mention under another format, and two malformed ones
RichTexts ==
    { NoKeys,
      ("format" :> Html) @@ ("formatted_body" :> << "hi ", MentionAnchor >>),
      ("format" :> Html) @@ ("formatted_body" :> << "hi ", username >>),
      ("format" :> "org.example.other")
          @@ ("formatted_body" :> << "hi ", MentionAnchor >>),
      ("formatted_body" :> << "hi ", MentionAnchor >>),
      ("format" :> Html) }

\* event.source["content"]: a dictionary whose keys may be missing
Contents ==
    { edit @@ rel @@ rich :
        edit \in {NoKeys, "m.new_content" :> "edited"},
        rel \in {NoKeys} \cup {"m.relates_to" :> r : r \in Relations},
        rich \in RichTexts }

\* the events sync_forever may deliver; the event id is given on delivery
EventShapes ==
    [ sender : Senders, server_timestamp : Timestamps, room_id : Rooms,
      body : { << "hello" >> }, content : Contents ]
        \cup [ sender : Senders, server_timestamp : {SpawnTime},
               room_id : {Room}, body : { << "hi ", username >> },
               content : {NoKeys} ]

\* ---------------------------------------------------------------- state
VARIABLES
    spawn_time,   \* self.spawn_time
    history,      \* self.history, oldest entry first
    pc,           \* where the client's main coroutine stands
    event,        \* the event message_callback was last called with
    n_events,     \* events delivered so far
    tasks,        \* the typing tasks created so far
    typing_task,  \* message_callback's local typing_task (0: none)
    ready,        \* coroutines the event loop has been told to run next
    response,     \* what the pending completion call will return
    request,      \* the last request passed to the completion backend
    calls         \* calls made to the homeserver and the backend, in order

vars == << spawn_time, history, pc, event, n_events, tasks, typing_task,
           ready, response, request, calls >>

NoEvent == [ event_id |-> 0 ]
NoRequest == [ messages |-> << >>, stop |-> << >>, tokens |-> 0, event_id |-> 0 ]
NoResponse == [ kind |-> "none" ]

\* ---------------------------------------------------- the event loop
\* The loop runs the coroutines scheduled with call_soon (a task just
\* created, a task just cancelled) in the order they were scheduled, before it
\* looks at the futures that have completed; a coroutine runs until it
\* suspends or returns.

\* loop.call_soon: the coroutine runs after those already queued
Schedule(queue, c) == Append(queue, c)

\* a scheduled coroutine runs when it is first in the queue
Runs(c) == ready # << >> /\ Head(ready) = c

\* -------------------------------------------------------- the history
\* deque(maxlen=n).append: the oldest entry is dropped from a full deque
DequeAppendUnbounded(dq, x, maxlen) == Append(dq, x)

DequeAppend(dq, x, maxlen) ==
    IF Len(dq) < maxlen THEN Append(dq, x)
    ELSE IF maxlen = 0 THEN dq
    ELSE Append(Tail(dq), x)

\* ------------------------------------------------ message_callback's tests
\* (a spawn time kept in seconds against timestamps in milliseconds)
PreSpawnInSeconds(e) == e.server_timestamp < spawn_time \div 1000

PreSpawn(e) == e.server_timestamp < spawn_time

\* (the event's room compared with itself)
DifferentRoomFromItself(e) == e.room_id # e.room_id

DifferentRoom(e) == e.room_id # Room

\* (the edit marker looked for beside the content, not in it)
EditedAtTopLevel(e) == "m.new_content" \in DOMAIN e

Edited(e) == "m.new_content" \in DOMAIN e.content

InThread(e) ==
    /\ "m.relates_to" \in DOMAIN e.content
    /\ "rel_type" \in DOMAIN e.content["m.relates_to"]
    /\ e.content["m.relates_to"]["rel_type"] = "m.thread"

\* (the sender compared with the username instead of the user id)
OwnMessageByUsername(e) == e.sender = username

OwnMessage(e) == e.sender = uid

\* (the display name looked for in the plain body)
MentionsUsInBody(e) == Contains(e.body, username)

MentionsUs(e) ==
    /\ "format" \in DOMAIN e.content
    /\ "formatted_body" \in DOMAIN e.content
    /\ e.content["format"] = Html
    /\ Contains(e.content["formatted_body"], MentionAnchor)

\* (the thread test left out)
IgnoredExceptThreads(e) == PreSpawn(e) \/ DifferentRoom(e) \/ Edited(e)

\* the four tests that return before the history is touched
Ignored(e) == PreSpawn(e) \/ DifferentRoom(e) \/ Edited(e) \/ InThread(e)

\* what the history keeps of an event and the prompt reads back
Entry(e) == [ event_id |-> e.event_id, sender |-> e.sender, body |-> e.body ]

\* ------------------------------------------------------ the completion
EndOfTurn == "<|im_end|>"
Label == "@bot:example.org:"
Preprompt == "You are a helpful assistant."

\* (the sender compared with the display name)
RoleByUsername(message) ==
    IF message.sender = username THEN "assistant" ELSE "user"

Role(message) == IF message.sender = uid THEN "assistant" ELSE "user"

Turn(message) ==
    [ content |-> << message.sender, ": " >> \o message.body,
      role |-> Role(message) ]

\* (the prompt built from the history as it stood before the event)
MessagesBeforeAppend(h) ==
    << [ content |-> << Preprompt >>, role |-> "system" ] >>
        \o [ i \in 1 .. (Len(h) - 1) |-> Turn(h[i]) ]

Messages(h) ==
    << [ content |-> << Preprompt >>, role |-> "system" ] >>
        \o [ i \in 1 .. Len(h) |-> Turn(h[i]) ]

StopMarkers == << EndOfTurn >>

\* str.strip on a text made of pieces, " " being its whitespace
RECURSIVE LStrip(_)
LStrip(s) == IF s # << >> /\ Head(s) = " " THEN LStrip(Tail(s)) ELSE s

RECURSIVE RStrip(_)
RStrip(s) ==
    IF s # << >> /\ s[Len(s)] = " " THEN RStrip(SubSeq(s, 1, Len(s) - 1)) ELSE s

Strip(s) == RStrip(LStrip(s))

RemovePrefix(s, prefix) == IF s # << >> /\ Head(s) = prefix THEN Tail(s) ELSE s

PostProcess(output) == Strip(RemovePrefix(Strip(output), Label))

\* what the backend may answer
Outputs == { << " ", Label, " ", "Hi!", " " >>, << " " >> }

Responses == { [ kind |-> "ok", content |-> o ] : o \in Outputs }
                 \cup { [ kind |-> "error" ] }

\* ------------------------------------------------- calls to collaborators
\* (the receipt sent for the event before)
ReadMarkersCallForPrevious(id) == [ op |-> "room_read_markers", event_id |-> id - 1 ]

ReadMarkersCall(id) == [ op |-> "room_read_markers", event_id |-> id ]
TypingCall(k, state) == [ op |-> "room_typing", task |-> k, typing_state |-> state ]
CompletionCall(id) == [ op |-> "acreate", event_id |-> id ]
SendCall(id, msgtype, body) ==
    [ op |-> "room_send", event_id |-> id, msgtype |-> msgtype, body |-> body ]

IsTyping(c, k, state) ==
    c.op = "room_typing" /\ c.task = k /\ c.typing_state = state

\* room_typing(True) calls task k has made
Beats(k) == Cardinality({ i \in DOMAIN calls : IsTyping(calls[i], k, TRUE) })

\* ------------------------------------------------------------ the tasks
\* pc: where the coroutine stands; must_cancel: CancelledError is thrown into
\* it when it next runs; cancelling: the cancel() calls made on it
NewTask == [ pc |-> "created", must_cancel |-> FALSE, cancelling |-> 0 ]

Done(k) == tasks[k].pc \in {"done", "cancelled"}

Scheduled(k) == \E i \in DOMAIN ready : ready[i] = k

\* Task.cancel(): a finished task is left alone; the future a suspended task
\* waits for is cancelled, which schedules the task; CancelledError is thrown
\* into the coroutine when the task next runs.
\* (a cancel() that does nothing)
CancelTasksNever(k) == tasks

CancelTasks(k) ==
    IF k = 0 \/ Done(k) THEN tasks
    ELSE [ tasks EXCEPT ![k].must_cancel = TRUE,
                        ![k].cancelling = tasks[k].cancelling + 1 ]

CancelReady(k, queue) ==
    IF k # 0 /\ ~Done(k) /\ ~Scheduled(k) THEN Schedule(queue, k) ELSE queue

\* ----------------------------------------------------------------- Init
Init ==
    /\ spawn_time = SpawnTime
    /\ history = << >>
    /\ pc = "sync"
    /\ event = NoEvent
    /\ n_events = 0
    /\ tasks = << >>
    /\ typing_task = 0
    /\ ready = << >>
    /\ response = NoResponse
    /\ request = NoRequest
    /\ calls = << >>

\* the formatted body of the event holds the mention anchor
Mentioning(shape) ==
    /\ "formatted_body" \in DOMAIN shape.content
    /\ Contains(shape.content["formatted_body"], MentionAnchor)

\* the homeserver has this further event for the client
MoreEvents(shape) ==
    /\ n_events < MaxEvents
    /\ Mentioning(shape) => Len(tasks) < MaxTasks

\* the main coroutine is suspended: the event loop chooses what runs
LoopTurn == pc \notin {"ignored", "recorded", "batch", "crashed"}

\* the future the main coroutine awaits at `at` has completed and the loop
\* resumes it
MainResumes(at) == LoopTurn /\ ready = << >> /\ pc = at

\* task k runs: it was scheduled and is first in the queue, or the future it
\* awaits at `at` has completed
\* (a loop that runs no task while the completion is awaited)
TaskRunsBetweenCompletions(k, at) ==
    /\ LoopTurn
    /\ pc # "acreate"
    /\ tasks[k].pc \in at
    /\ Runs(k) \/ (ready = << >> /\ tasks[k].pc # "created")

TaskRuns(k, at) ==
    /\ LoopTurn
    /\ tasks[k].pc \in at
    /\ Runs(k) \/ (ready = << >> /\ tasks[k].pc # "created")

\* the queue once task k has run
AfterRun(k) == IF Runs(k) THEN Tail(ready) ELSE ready

\* ------------------------------------------------------ message_callback
\* From the call to the first suspension: the four early returns, then the
\* history update and the read receipt.
MessageCallback(shape) ==
    LET e == ("event_id" :> (n_events + 1)) @@ shape IN
    /\ event' = e
    /\ n_events' = n_events + 1
    /\ IF Ignored(e)
       THEN /\ pc' = "ignored"
            /\ UNCHANGED << history, calls >>
       ELSE /\ history' = DequeAppend(history, Entry(e), HistorySize)
            /\ calls' = Append(calls, ReadMarkersCall(e.event_id))
            /\ pc' = "read_markers"
    /\ UNCHANGED << spawn_time, tasks, typing_task, ready, response, request >>

\* sync_forever receives a sync response and calls message_callback with its
\* first event
SyncDeliver(shape) ==
    /\ MainResumes("sync")
    /\ MoreEvents(shape)
    /\ MessageCallback(shape)

\* sync_forever calls message_callback with the next event of the same sync
\* response
BatchDeliver(shape) ==
    /\ pc = "batch"
    /\ MoreEvents(shape)
    /\ MessageCallback(shape)

\* message_callback has returned early; sync_forever goes on
Return ==
    /\ pc \in {"ignored", "recorded"}
    /\ pc' = "batch"
    /\ event' = NoEvent
    /\ UNCHANGED << spawn_time, history, n_events, tasks, typing_task, ready,
                    response, request, calls >>

\* the sync response is exhausted: sync_forever awaits the next one
BatchEnd ==
    /\ pc = "batch"
    /\ pc' = "sync"
    /\ UNCHANGED << spawn_time, history, event, n_events, tasks, typing_task,
                    ready, response, request, calls >>

\* After the read receipt: the own-message and mention tests, then the
\* typing task is created and the completion is requested.
AfterReadMarkers ==
    /\ MainResumes("read_markers")
    /\ IF OwnMessage(event) \/ ~MentionsUs(event)
       THEN /\ pc' = "recorded"
            /\ UNCHANGED << tasks, typing_task, ready, request, calls >>
       ELSE /\ tasks' = Append(tasks, NewTask)
            /\ typing_task' = Len(tasks) + 1
            /\ ready' = Schedule(ready, Len(tasks) + 1)
            /\ request' = [ messages |-> Messages(history), stop |-> StopMarkers,
                            tokens |-> 0, event_id |-> event.event_id ]
            /\ calls' = Append(calls, CompletionCall(event.event_id))
            /\ pc' = "acreate"
    /\ UNCHANGED << spawn_time, history, event, n_events, response >>

\* After the completion, which returned r: an error of the backend is raised
\* out of message_callback, sync_forever and start; otherwise the reply is
\* sent.
\* (a completion that failed asked for again)
AfterCompletionRetrying(r) ==
    /\ MainResumes("acreate")
    /\ response' = r
    /\ IF r.kind = "error"
       THEN /\ pc' = "acreate"
            /\ calls' = Append(calls, CompletionCall(event.event_id))
       ELSE /\ calls' = Append(calls,
                    SendCall(event.event_id, "m.text", PostProcess(r.content)))
            /\ pc' = "room_send"
    /\ UNCHANGED << spawn_time, history, event, n_events, tasks, typing_task,
                    ready, request >>

AfterCompletion(r) ==
    /\ MainResumes("acreate")
    /\ response' = r
    /\ IF r.kind = "error"
       THEN /\ pc' = "crashed"
            /\ UNCHANGED calls
       ELSE /\ calls' = Append(calls,
                    SendCall(event.event_id, "m.text", PostProcess(r.content)))
            /\ pc' = "room_send"
    /\ UNCHANGED << spawn_time, history, event, n_events, tasks, typing_task,
                    ready, request >>

\* After the reply is sent: the typing task is cancelled and the callback
\* returns.
AfterRoomSend ==
    /\ MainResumes("room_send")
    /\ tasks' = CancelTasks(typing_task)
    /\ ready' = CancelReady(typing_task, ready)
    /\ typing_task' = 0
    /\ event' = NoEvent
    /\ pc' = "batch"
    /\ UNCHANGED << spawn_time, history, n_events, response, request, calls >>

\* ---------------------------------------------------------- typing_loop
\* the task's first step: a task cancelled before it ever ran ends without
\* entering the coroutine's body
TypingLoopEnter(k) ==
    /\ TaskRuns(k, {"created"})
    /\ ready' = AfterRun(k)
    /\ IF tasks[k].must_cancel
       THEN /\ tasks' = [ tasks EXCEPT ![k].pc = "cancelled",
                                       ![k].must_cancel = FALSE ]
            /\ UNCHANGED calls
       ELSE /\ tasks' = [ tasks EXCEPT ![k].pc = "typing_true" ]
            /\ calls' = Append(calls, TypingCall(k, TRUE))
    /\ UNCHANGED << spawn_time, history, pc, event, n_events, typing_task,
                    response, request >>

\* the task resumes after room_typing(True) and sleeps
TypingLoopSleep(k) ==
    /\ TaskRuns(k, {"typing_true"})
    /\ ~tasks[k].must_cancel
    /\ ready' = AfterRun(k)
    /\ tasks' = [ tasks EXCEPT ![k].pc = "sleep" ]
    /\ UNCHANGED << spawn_time, history, pc, event, n_events, typing_task,
                    response, request, calls >>

\* the task resumes after the sleep and sends the indicator again
TypingLoopAgain(k) ==
    /\ TaskRuns(k, {"sleep"})
    /\ ~tasks[k].must_cancel
    /\ Beats(k) - 1 < MaxSleeps
    /\ ready' = AfterRun(k)
    /\ tasks' = [ tasks EXCEPT ![k].pc = "typing_true" ]
    /\ calls' = Append(calls, TypingCall(k, TRUE))
    /\ UNCHANGED << spawn_time, history, pc, event, n_events, typing_task,
                    response, request >>

\* CancelledError is thrown into the try block, at room_typing(True) or at
\* the sleep: the except block sends room_typing(False)
TypingLoopCancelled(k) ==
    /\ TaskRuns(k, {"typing_true", "sleep"})
    /\ tasks[k].must_cancel
    /\ ready' = AfterRun(k)
    /\ tasks' = [ tasks EXCEPT ![k].pc = "typing_false",
                               ![k].must_cancel = FALSE ]
    /\ calls' = Append(calls, TypingCall(k, FALSE))
    /\ UNCHANGED << spawn_time, history, pc, event, n_events, typing_task,
                    response, request >>

\* the task resumes in the except block and returns
TypingLoopExit(k) ==
    /\ TaskRuns(k, {"typing_false"})
    /\ ready' = AfterRun(k)
    /\ tasks' = [ tasks EXCEPT
                    ![k].pc = IF tasks[k].must_cancel THEN "cancelled" ELSE "done",
                    ![k].must_cancel = FALSE ]
    /\ UNCHANGED << spawn_time, history, pc, event, n_events, typing_task,
                    response, request, calls >>

TaskIds == 1 .. Len(tasks)

\* -------------------------------------------------------- specification
Next ==
    \/ \E shape \in EventShapes : SyncDeliver(shape)
    \/ \E shape \in EventShapes : BatchDeliver(shape)
    \/ Return
    \/ BatchEnd
    \/ AfterReadMarkers
    \/ \E r \in Responses : AfterCompletion(r)
    \/ AfterRoomSend
    \/ \E k \in TaskIds : TypingLoopEnter(k)
    \/ \E k \in TaskIds : TypingLoopSleep(k)
    \/ \E k \in TaskIds : TypingLoopAgain(k)
    \/ \E k \in TaskIds : TypingLoopCancelled(k)
    \/ \E k \in TaskIds : TypingLoopExit(k)

Spec == Init /\ [][Next]_vars

\* ------------------------------------------------ the llama.cpp revision
\* SpecLlama models src/nio_llm/client.py: the model runs in the client's
\* process, the call of it blocks the event loop, and message_callback sends
\* the typing indicator itself.
LlamaHistorySize == 10
ContextBudget == 512

\* the prompt echoed at the head of the model's output
Echo == "<prompt>"

\* the thread test reads rel_type without testing that it is there
LlamaKeyError(e) ==
    /\ "m.relates_to" \in DOMAIN e.content
    /\ "rel_type" \notin DOMAIN e.content["m.relates_to"]

LlamaInThread(e) ==
    /\ "m.relates_to" \in DOMAIN e.content
    /\ e.content["m.relates_to"]["rel_type"] = "m.thread"

LlamaPrompt(h) ==
    << << Preprompt >> >>
        \o [ i \in 1 .. Len(h) |-> << "<", h[i].sender, ">", ": " >> \o h[i].body ]
        \o << << "<", uid, ">", ":" >> >>

LlamaStop(h) ==
    << << "<", uid, ">" >>, << "### Human" >>, << "### Assistant" >> >>
        \o [ i \in 1 .. Len(h) |-> << "<", h[i].sender, ">" >> ]

\* (the budget taken for the context size n_ctx = 512 + 128)
PromptTooLongForContext(n) == n > ContextBudget + 128

PromptTooLong(n) == n > ContextBudget

OverflowNotice == << "reached prompt token limit" >>

\* what the tokenizer may count
TokenCounts == { ContextBudget, ContextBudget + 1 }

\* what the model may return, the prompt echoed first
LlamaResponses ==
    { [ kind |-> "ok", content |-> o ] :
        o \in { << Echo, " ", "Hi!", " " >>, << Echo, " " >> } }
        \cup { [ kind |-> "error" ] }

LlamaPostProcess(output) == Strip(RemovePrefix(output, Echo))

LlamaTypingCall(id, state) ==
    [ op |-> "room_typing", task |-> 0, typing_state |-> state, event_id |-> id ]

LlamaCall(id) == [ op |-> "llm", event_id |-> id ]

\* From the call to the first suspension or the return: the tests, the
\* history update, the prompt and its token count, then the notice or the
\* typing indicator.
LlamaMessageCallback(shape, n) ==
    LET e == ("event_id" :> (n_events + 1)) @@ shape
        h == DequeAppend(history, Entry(e), LlamaHistorySize)
    IN
    /\ event' = e
    /\ n_events' = n_events + 1
    /\ IF PreSpawn(e) \/ DifferentRoom(e) \/ Edited(e)
       THEN /\ pc' = "ignored"
            /\ UNCHANGED << history, calls, request >>
       ELSE IF LlamaKeyError(e)
       THEN /\ pc' = "crashed"
            /\ UNCHANGED << history, calls, request >>
       ELSE IF LlamaInThread(e)
       THEN /\ pc' = "ignored"
            /\ UNCHANGED << history, calls, request >>
       ELSE IF OwnMessage(e) \/ ~MentionsUs(e)
       THEN /\ history' = h
            /\ pc' = "recorded"
            /\ UNCHANGED << calls, request >>
       ELSE /\ history' = h
            /\ request' = [ messages |-> LlamaPrompt(h), stop |-> LlamaStop(h),
                            tokens |-> n, event_id |-> e.event_id ]
            /\ IF PromptTooLong(n)
               THEN /\ calls' = Append(calls,
                            SendCall(e.event_id, "m.emote", OverflowNotice))
                    /\ pc' = "send_notice"
               ELSE /\ calls' = Append(calls, LlamaTypingCall(e.event_id, TRUE))
                    /\ pc' = "typing_on"
    /\ UNCHANGED << spawn_time, tasks, typing_task, ready, response >>

LlamaSyncDeliver(shape, n) ==
    /\ MainResumes("sync")
    /\ MoreEvents(shape)
    /\ LlamaMessageCallback(shape, n)

LlamaBatchDeliver(shape, n) ==
    /\ pc = "batch"
    /\ MoreEvents(shape)
    /\ LlamaMessageCallback(shape, n)

\* After the typing indicator is on: the model is called and blocks the loop;
\* an error of it is raised out of message_callback; otherwise the typing
\* indicator is turned off.
LlamaAfterTypingOn(r) ==
    /\ MainResumes("typing_on")
    /\ response' = r
    /\ IF r.kind = "error"
       THEN /\ pc' = "crashed"
            /\ calls' = Append(calls, LlamaCall(event.event_id))
       ELSE /\ calls' = calls \o << LlamaCall(event.event_id),
                                    LlamaTypingCall(event.event_id, FALSE) >>
            /\ pc' = "typing_off"
    /\ UNCHANGED << spawn_time, history, event, n_events, tasks, typing_task,
                    ready, request >>

\* After the typing indicator is off: the reply is sent.
LlamaAfterTypingOff ==
    /\ MainResumes("typing_off")
    /\ calls' = Append(calls, SendCall(event.event_id, "m.text",
                                       LlamaPostProcess(response.content)))
    /\ pc' = "room_send"
    /\ UNCHANGED << spawn_time, history, event, n_events, tasks, typing_task,
                    ready, response, request >>

\* After the reply or the notice is sent: the callback returns.
LlamaAfterSend ==
    /\ LoopTurn /\ ready = << >> /\ pc \in {"room_send", "send_notice"}
    /\ event' = NoEvent
    /\ pc' = "batch"
    /\ UNCHANGED << spawn_time, history, n_events, tasks, typing_task, ready,
                    response, request, calls >>

NextLlama ==
    \/ \E shape \in EventShapes, n \in TokenCounts : LlamaSyncDeliver(shape, n)
    \/ \E shape \in EventShapes, n \in TokenCounts : LlamaBatchDeliver(shape, n)
    \/ Return
    \/ BatchEnd
    \/ \E r \in LlamaResponses : LlamaAfterTypingOn(r)
    \/ LlamaAfterTypingOff
    \/ LlamaAfterSend

SpecLlama == Init /\ [][NextLlama]_vars

\* ------------------------------------------- typing_loop, driven directly
\* SpecHeartbeat runs typing_loop under a caller that creates typing tasks
\* and cancels each of them once, at any moment of its life.
InitHeartbeat ==
    /\ spawn_time = SpawnTime
    /\ history = << >>
    /\ pc = "caller"
    /\ event = NoEvent
    /\ n_events = 0
    /\ tasks = << >>
    /\ typing_task = 0
    /\ ready = << >>
    /\ response = NoResponse
    /\ request = NoRequest
    /\ calls = << >>

\* asyncio.create_task(self.typing_loop())
CallerCreates ==
    /\ pc = "caller"
    /\ Len(tasks) < MaxTasks
    /\ tasks' = Append(tasks, NewTask)
    /\ typing_task' = Len(tasks) + 1
    /\ ready' = Schedule(ready, Len(tasks) + 1)
    /\ UNCHANGED << spawn_time, history, pc, event, n_events,
                    response, request, calls >>

\* typing_task.cancel(), once per task
CallerCancels(k) ==
    /\ pc = "caller"
    /\ tasks[k].cancelling = 0
    /\ tasks' = CancelTasks(k)
    /\ ready' = CancelReady(k, ready)
    /\ UNCHANGED << spawn_time, history, pc, event, n_events, typing_task,
                    response, request, calls >>

NextHeartbeat ==
    \/ CallerCreates
    \/ \E k \in TaskIds : CallerCancels(k)
    \/ \E k \in TaskIds : TypingLoopEnter(k)
    \/ \E k \in TaskIds : TypingLoopSleep(k)
    \/ \E k \in TaskIds : TypingLoopAgain(k)
    \/ \E k \in TaskIds : TypingLoopCancelled(k)
    \/ \E k \in TaskIds : TypingLoopExit(k)

SpecHeartbeat == InitHeartbeat /\ [][NextHeartbeat]_vars

\* ------------------------------------------ the prompt, built on its own
\* SpecAssemble builds the messages of lines 170-182 from any history of one
\* to MaxTurns entries.
Bodies == { << "hello" >>, << "hi ", username >> }

HistoryEntries == [ event_id : 1 .. MaxTurns, sender : Senders, body : Bodies ]

RECURSIVE Histories(_)
Histories(n) ==
    IF n = 0 THEN { << >> }
    ELSE LET shorter == Histories(n - 1) IN
         shorter \cup { Append(h, x) : h \in { g \in shorter : Len(g) = n - 1 },
                                       x \in HistoryEntries }

InitAssemble ==
    /\ spawn_time = SpawnTime
    /\ history \in Histories(MaxTurns) \ { << >> }
    /\ pc = "assemble"
    /\ event = NoEvent
    /\ n_events = 0
    /\ tasks = << >>
    /\ typing_task = 0
    /\ ready = << >>
    /\ response = NoResponse
    /\ request = NoRequest
    /\ calls = << >>

Assemble ==
    /\ pc = "assemble"
    /\ request' = [ messages |-> Messages(history), stop |-> StopMarkers,
                    tokens |-> 0, event_id |-> history[Len(history)].event_id ]
    /\ pc' = "assembled"
    /\ UNCHANGED << spawn_time, history, event, n_events, tasks, typing_task,
                    ready, response, calls >>

NextAssemble == Assemble

SpecAssemble == InitAssemble /\ [][NextAssemble]_vars

\* ================================================================ claims
\* the room_typing calls of task k, in order
RECURSIVE TypingStates(_, _)
TypingStates(c, k) ==
    IF c = << >> THEN << >>
    ELSE IF Head(c).op = "room_typing" /\ Head(c).task = k
         THEN << Head(c).typing_state >> \o TypingStates(Tail(c), k)
         ELSE TypingStates(Tail(c), k)

NotTypingCalls(k) ==
    Cardinality({ i \in DOMAIN calls : IsTyping(calls[i], k, FALSE) })

\* message_callback is not running and not suspended: the handling of the
\* last event has ended
HandlingEnded == pc \in {"sync", "batch", "ignored", "recorded", "crashed"}

\* C1: every typing task message_callback started has been stopped once the
\* callback has ended, whichever way it ended, and no task sends its final
\* room_typing(False) twice.
C1_HeartbeatStoppedOnEveryExit ==
    /\ HandlingEnded => \A k \in TaskIds : tasks[k].cancelling = 1
    /\ \A k \in TaskIds : NotTypingCalls(k) <= 1 /\ tasks[k].cancelling <= 1

\* C2: when the completion fails, no reply is sent for the event, its typing
\* task is stopped once, and no exception reaches sync_forever.
C2_CompletionErrorContained ==
    (response.kind = "error" /\ pc # "acreate") =>
        /\ pc # "crashed"
        /\ \A k \in TaskIds : tasks[k].cancelling = 1
        /\ \A i \in DOMAIN calls : calls[i].op # "room_send"

\* C3: when room_send publishes the reply, the typing task of that response
\* has been cancelled and has sent its room_typing(False).
C3_StopBeforePublish ==
    \A i \in DOMAIN calls :
        calls[i].op = "room_send" =>
            \E j \in 1 .. (i - 1) :
                /\ calls[j].op = "room_typing"
                /\ ~calls[j].typing_state
                /\ \A l \in (j + 1) .. i : calls[l].op # "room_typing"

\* C4: a typing task that was started and stopped, whenever the stop came,
\* has sent exactly one room_typing(False), and nothing after it.
C4_OneFinalNotTyping ==
    \A k \in TaskIds :
        Done(k) =>
            LET states == TypingStates(calls, k) IN
            /\ NotTypingCalls(k) = 1
            /\ states[Len(states)] = FALSE

\* the ids of the recorded events, oldest first: message_callback sends a
\* read receipt for each event it appends to the history
RECURSIVE RecordedIds(_)
RecordedIds(c) ==
    IF c = << >> THEN << >>
    ELSE IF Head(c).op = "room_read_markers"
         THEN << Head(c).event_id >> \o RecordedIds(Tail(c))
         ELSE RecordedIds(Tail(c))

HistoryIds == [ i \in 1 .. Len(history) |-> history[i].event_id ]

LastN(seq, n) ==
    IF Len(seq) <= n THEN seq ELSE SubSeq(seq, Len(seq) - n + 1, Len(seq))

EventInHand == event # NoEvent

NotInHistory(id) == \A i \in DOMAIN history : history[i].event_id # id

NoResponseTo(id) ==
    \A i \in DOMAIN calls :
        calls[i].op \in {"acreate", "room_send"} => calls[i].event_id # id

NoCallFor(id) ==
    \A i \in DOMAIN calls : calls[i].op # "room_typing" => calls[i].event_id # id

HasThreadRelation(e) ==
    /\ "m.relates_to" \in DOMAIN e.content
    /\ "rel_type" \in DOMAIN e.content["m.relates_to"]
    /\ e.content["m.relates_to"]["rel_type"] = "m.thread"

HasMention(e) ==
    /\ "format" \in DOMAIN e.content
    /\ "formatted_body" \in DOMAIN e.content
    /\ e.content["format"] = "org.matrix.custom.html"
    /\ \E i \in DOMAIN e.content["formatted_body"] :
          e.content["formatted_body"][i] = MentionAnchor

\* C6: an event older than the client is ignored whatever else it holds: it
\* is not in the history and no call is made for it.
C6_PreSpawnIgnored ==
    (EventInHand /\ event.server_timestamp < spawn_time) =>
        /\ pc = "ignored"
        /\ NotInHistory(event.event_id)
        /\ NoCallFor(event.event_id)

C6_Witness_OldMention ==
    /\ pc = "ignored"
    /\ event.server_timestamp < spawn_time
    /\ event.room_id = Room
    /\ event.sender = Alice
    /\ "m.new_content" \notin DOMAIN event.content
    /\ "m.relates_to" \notin DOMAIN event.content
    /\ HasMention(event)

\* C7: an event of another room than the monitored one is ignored whatever
\* else it holds: it is not in the history and no call is made for it.
C7_OtherRoomIgnored ==
    (EventInHand /\ event.room_id # Room) =>
        /\ pc = "ignored"
        /\ NotInHistory(event.event_id)
        /\ NoCallFor(event.event_id)

C7_Witness_OtherRoomMention ==
    /\ pc = "ignored"
    /\ event.room_id = OtherRoom
    /\ event.server_timestamp >= spawn_time
    /\ event.sender = Alice
    /\ "m.new_content" \notin DOMAIN event.content
    /\ "m.relates_to" \notin DOMAIN event.content
    /\ HasMention(event)

PassesEarlyTests(e) ==
    /\ e.server_timestamp >= spawn_time
    /\ e.room_id = Room
    /\ "m.new_content" \notin DOMAIN e.content
    /\ ~HasThreadRelation(e)

\* C8: an event the bot sent itself, which passes the timestamp, room, edit
\* and thread tests, is appended to the history and gets no response, even
\* when it mentions the bot; the event a response is made for is never the
\* bot's own.
C8_OwnMessagesRecordedOnly ==
    /\ (EventInHand /\ event.sender = uid /\ PassesEarlyTests(event)) =>
          /\ pc \in {"read_markers", "recorded"}
          /\ history # << >>
          /\ history[Len(history)].event_id = event.event_id
          /\ history[Len(history)].sender = uid
          /\ NoResponseTo(event.event_id)
          /\ typing_task = 0
    /\ pc \in {"acreate", "room_send"} =>
          /\ history # << >>
          /\ history[Len(history)].event_id = event.event_id
          /\ history[Len(history)].sender # uid

C8_Witness_OwnMention ==
    /\ pc = "recorded"
    /\ event.sender = uid
    /\ HasMention(event)
    /\ history[Len(history)].event_id = event.event_id

Decision(e) ==
    IF ~PassesEarlyTests(e) THEN "Ignore"
    ELSE IF e.sender # uid /\ HasMention(e) THEN "RecordAndRespond"
    ELSE "RecordOnly"

\* C9: message_callback ignores an event, records it, or records it and
\* responds, as the event alone decides: it responds exactly to the events
\* that pass the timestamp, room, edit and thread tests, are not the bot's own
\* and hold the mention anchor in an org.matrix.custom.html formatted body; it
\* only records the others that pass the four tests; it ignores the rest.
C9_AdmissionDecision ==
    EventInHand =>
        /\ Decision(event) = "Ignore" => pc = "ignored"
        /\ Decision(event) = "RecordOnly" => pc \in {"read_markers", "recorded"}
        /\ Decision(event) = "RecordAndRespond" =>
              pc \in {"read_markers", "acreate", "room_send", "crashed"}
        /\ pc \in {"read_markers", "recorded"} =>
              /\ history # << >>
              /\ history[Len(history)].event_id = event.event_id
              /\ pc = "recorded" => NoResponseTo(event.event_id)
        /\ pc \in {"acreate", "room_send", "crashed"} =>
              /\ typing_task # 0
              /\ \E i \in DOMAIN calls :
                    calls[i] = CompletionCall(event.event_id)

\* an event whose plain body holds the display name, with no formatted body,
\* was only recorded, after another event was responded to
C9_Witness_BareNameRecordedOnly ==
    /\ pc = "recorded"
    /\ event.sender = Alice
    /\ \E i \in DOMAIN event.body : event.body[i] = username
    /\ "formatted_body" \notin DOMAIN event.content
    /\ \E i \in DOMAIN calls : calls[i].op = "acreate"

IsNotice(c) ==
    c.op = "room_send" /\ c.msgtype = "m.emote"
        /\ c.body = << "reached prompt token limit" >>

\* C10: when the prompt counts more tokens than the budget, message_callback
\* sends the fixed notice and makes no other call for the event: the model is
\* not called and the typing indicator is not sent.
C10_OverflowNotice ==
    /\ (pc \in {"send_notice", "typing_on", "typing_off", "room_send"}
            /\ request.tokens > 512) =>
          /\ pc = "send_notice"
          /\ IsNotice(calls[Len(calls)])
          /\ calls[Len(calls)].event_id = event.event_id
    /\ \A i \in DOMAIN calls :
          IsNotice(calls[i]) =>
              \A j \in DOMAIN calls :
                  (j # i /\ calls[j].op # "room_read_markers") =>
                      calls[j].event_id # calls[i].event_id

C10_Witness_NoticeWithHistory ==
    /\ pc = "send_notice"
    /\ request.tokens > 512
    /\ Len(history) >= 2
    /\ IsNotice(calls[Len(calls)])

\* the turns of a request: its messages after the system message
Turns(r) == Tail(r.messages)

\* message_callback is past the mention test: it answers the event in hand
ResponsePhase == pc \in {"acreate", "room_send", "crashed"}

Last(seq) == seq[Len(seq)]

C12_OneTurnPerEntry ==
    /\ [](pc = "assembled" =>
            /\ request.messages[1] = [ content |-> << Preprompt >>, role |-> "system" ]
            /\ Len(Turns(request)) = Len(history)
            /\ \A i \in DOMAIN history :
                  /\ Turns(request)[i].role = "assistant"
                        <=> history[i].sender = "@bot:example.org"
                  /\ Turns(request)[i].role \in {"assistant", "user"}
                  /\ Turns(request)[i].content
                        = << history[i].sender, ": " >> \o history[i].body)
    /\ [][history' = history]_vars

\* a prompt built from a message of the bot and a message of @alice
C12_Witness_BothRoles ==
    /\ pc = "assembled"
    /\ Len(history) = 2
    /\ history[1].sender = uid
    /\ history[2].sender = Alice
    /\ Turns(request)[1].role = "assistant"
    /\ Turns(request)[2].role = "user"

\* typing task k was started and no stop was asked of it
Running(k) ==
    /\ tasks[k].pc \notin {"done", "cancelled"}
    /\ tasks[k].cancelling = 0

\* the completion asked for event id has ended, with a reply or an error
Answered(id) ==
    \/ \E i \in DOMAIN calls : calls[i].op = "room_send" /\ calls[i].event_id = id
    \/ response.kind = "error" /\ event.event_id = id

InFlight ==
    { i \in DOMAIN calls : calls[i].op = "acreate" /\ ~Answered(calls[i].event_id) }

C14_FailureIsLocal ==
    response.kind = "error" =>
        /\ \A k \in TaskIds : ~Running(k)
        /\ InFlight = {}
        /\ HistoryIds = LastN(RecordedIds(calls), HistorySize)
        /\ \E i \in DOMAIN history : history[i].event_id = request.event_id
              \/ Len(RecordedIds(calls)) > HistorySize
        /\ pc \in {"sync", "batch", "ignored", "read_markers", "recorded",
                   "acreate", "room_send"}

\* the typing task of the completion called at calls[i]: message_callback
\* creates one task for each completion it asks for
TaskOf(i) == Cardinality({ j \in 1 .. i : calls[j].op = "acreate" })

\* C15: when the completion is called, the typing task of that response
\* has already sent its first room_typing(True).
C15_HeartbeatBeforeCompletion ==
    \A i \in DOMAIN calls :
        calls[i].op = "acreate" =>
            \E j \in 1 .. (i - 1) :
                calls[j] = [ op |-> "room_typing", task |-> TaskOf(i),
                             typing_state |-> TRUE ]

C17_EditsAndThreadsIgnored ==
    (EventInHand /\ event.room_id = Room /\ event.server_timestamp >= spawn_time
        /\ ("m.new_content" \in DOMAIN event.content \/ HasThreadRelation(event))) =>
        /\ pc = "ignored"
        /\ NotInHistory(event.event_id)
        /\ NoCallFor(event.event_id)
        /\ typing_task = 0

C17_Witness_EditedMention ==
    /\ pc = "ignored"
    /\ event.room_id = Room
    /\ event.server_timestamp >= spawn_time
    /\ event.sender = Alice
    /\ "m.new_content" \in DOMAIN event.content
    /\ "m.relates_to" \notin DOMAIN event.content
    /\ HasMention(event)

\* the content lacks a field the mention test reads
LacksRichText(e) ==
    "format" \notin DOMAIN e.content \/ "formatted_body" \notin DOMAIN e.content

\* the content holds a relation without rel_type, as a plain reply does
PlainReply(e) ==
    /\ "m.relates_to" \in DOMAIN e.content
    /\ "rel_type" \notin DOMAIN e.content["m.relates_to"]

\* C18: content that lacks fields never makes message_callback raise: an
\* event without format or without formatted_body is handled as one that
\* does not mention the bot, and an event whose relation has no rel_type is
\* handled as the other tests decide, as an event outside any thread.
C18_MalformedContentHandled ==
    EventInHand =>
        /\ LacksRichText(event) => pc \in {"ignored", "read_markers", "recorded"}
        /\ PlainReply(event) =>
              /\ pc = "ignored" <=>
                    \/ event.server_timestamp < spawn_time
                    \/ event.room_id # Room
                    \/ "m.new_content" \in DOMAIN event.content
              /\ pc \notin {"ignored", "read_markers", "recorded"} =>
                    event.sender # uid /\ HasMention(event)
        /\ (LacksRichText(event) \/ PlainReply(event)) =>
              (pc = "crashed" => response.kind = "error")

\* C19: every request sent to the completion holds, among its stop markers,
\* the bot's identity (its user id, with or without the colon of the label,
\* or its display name) and the end-of-turn marker of the backend.
C19_StopMarkersHoldIdentity ==
    request.event_id # 0 =>
        /\ \E i \in DOMAIN request.stop : request.stop[i] = "<|im_end|>"
        /\ \E i \in DOMAIN request.stop :
              request.stop[i] \in {"@bot:example.org", "@bot:example.org:", "bot"}

\* the backend answered with whitespace only: nothing is left of the output
\* once it is stripped
EmptyReply(r) ==
    r.kind = "ok" /\ \A i \in DOMAIN r.content : r.content[i] = " "

\* C20: when nothing is left of the backend's output after the label and the
\* whitespace are stripped, no message is sent to the room for the event, and
\* its typing task is stopped once the handling has ended.
C20_EmptyOutputNotPublished ==
    /\ \A i \in DOMAIN calls :
          (calls[i].op = "room_send" /\ calls[i].msgtype = "m.text") =>
              calls[i].body # << >>
    /\ EmptyReply(response) =>
          /\ \A i \in DOMAIN calls :
                calls[i].op = "room_send" => calls[i].event_id # request.event_id
          /\ HandlingEnded => \A k \in TaskIds : ~Running(k)

\* the calls of operation op made for event id
CallsFor(op, id) ==
    { i \in DOMAIN calls : calls[i].op = op /\ calls[i].event_id = id }

\* the ids of the events a completion was asked for
AnsweredIds ==
    { calls[i].event_id : i \in { j \in DOMAIN calls : calls[j].op = "acreate" } }

\* C21: for each event answered the completion is called once, never again;
\* once it has returned an output one reply, and only one, is sent to the
\* monitored room for the event, after the call; when it has failed, or has
\* not returned yet, none is sent.  No reply is sent for any other event.
C21_OneCompletionOneReply ==
    /\ \A id \in AnsweredIds :
          /\ Cardinality(CallsFor("acreate", id)) = 1
          /\ Cardinality(CallsFor("room_send", id))
                = IF event.event_id = id /\ pc \in {"acreate", "crashed"}
                  THEN 0 ELSE 1
          /\ \A i \in CallsFor("room_send", id) :
                /\ calls[i].msgtype = "m.text"
                /\ \E j \in CallsFor("acreate", id) : j < i
    /\ \A i \in DOMAIN calls :
          calls[i].op = "room_send" => calls[i].event_id \in AnsweredIds
    /\ pc \in {"acreate", "room_send", "crashed"} => event.event_id \in AnsweredIds
    /\ pc = "crashed" <=> response.kind = "error"

\* two events were answered, each with one completion and one reply
C21_Witness_TwoReplies ==
    /\ pc = "batch"
    /\ AnsweredIds = {1, 2}
    /\ \A id \in {1, 2} :
          /\ Cardinality(CallsFor("acreate", id)) = 1
          /\ Cardinality(CallsFor("room_send", id)) = 1

\* C22: handling an event that is older than the client, of another room,
\* an edit or in a thread changes neither the history nor the calls made,
\* the typing tasks or the request; and the history changes only as an event
\* that is none of these is taken in hand, by the append of that event at its
\* end, the oldest entry leaving when the history is full.
C22_IgnoreChangesNothing ==
    [][ /\ (event' # event /\ event' # NoEvent /\ Decision(event') = "Ignore") =>
              /\ pc' = "ignored"
              /\ history' = history
              /\ calls' = calls
              /\ tasks' = tasks
              /\ typing_task' = typing_task
              /\ ready' = ready
              /\ request' = request
        /\ pc = "ignored" =>
              /\ history' = history
              /\ calls' = calls
              /\ tasks' = tasks
        /\ history' # history =>
              /\ event' # event
              /\ Decision(event') # "Ignore"
              /\ history' = LastN(Append(history,
                                [ event_id |-> event'.event_id,
                                  sender |-> event'.sender,
                                  body |-> event'.body ]), HistorySize)
      ]_vars

\* an event in a thread, mentioning the bot, was ignored after another event
\* was recorded
C22_Witness_ThreadAfterRecord ==
    /\ pc = "ignored"
    /\ HasThreadRelation(event)
    /\ HasMention(event)
    /\ event.room_id = Room
    /\ event.server_timestamp >= spawn_time
    /\ history # << >>
    /\ NotInHistory(event.event_id)

\* the last room_typing(False) of a typing task comes before the first
\* room_typing(True) of the next one
StopBeforeNextStart ==
    \A i \in DOMAIN calls :
        (calls[i].op = "room_typing" /\ calls[i].typing_state /\ calls[i].task > 1) =>
            \E j \in 1 .. (i - 1) :
                calls[j] = [ op |-> "room_typing", task |-> calls[i].task - 1,
                             typing_state |-> FALSE ]

\* C23: when message_callback has returned to sync_forever every typing
\* task it started has ended, its room_typing(False) sent and answered, so
\* that the room_typing(False) of one response comes before the first
\* room_typing(True) of the next.
C23_CleanupDoneAtReturn ==
    /\ pc \in {"sync", "batch"} => \A k \in TaskIds : Done(k)
    /\ StopBeforeNextStart

\* the event in hand was appended to the history
Recorded == pc \in {"read_markers", "recorded", "acreate", "room_send", "crashed"}

\* C24: one read receipt, and only one, is sent for each recorded event,
\* the bot's own included, with the id of that event, once the event is in
\* the history and before its typing task is created or its completion
\* called; none is sent for an ignored event.
C24_OneReadMarkerPerRecordedEvent ==
    /\ \A id \in 1 .. n_events : Cardinality(CallsFor("room_read_markers", id)) <= 1
    /\ \A i \in DOMAIN calls :
          calls[i].op = "room_read_markers" => calls[i].event_id \in 1 .. n_events
    /\ \A i \in DOMAIN history :
          Cardinality(CallsFor("room_read_markers", history[i].event_id)) = 1
    /\ (EventInHand /\ Recorded) =>
          /\ Cardinality(CallsFor("room_read_markers", event.event_id)) = 1
          /\ Last(history).event_id = event.event_id
    /\ (EventInHand /\ pc = "read_markers") =>
          /\ Last(calls) = [ op |-> "room_read_markers", event_id |-> event.event_id ]
             \/ Last(calls).op = "room_typing"
          /\ typing_task = 0
          /\ CallsFor("acreate", event.event_id) = {}
    /\ (EventInHand /\ pc = "ignored") =>
          CallsFor("room_read_markers", event.event_id) = {}
    /\ \A i \in DOMAIN calls :
          calls[i].op = "acreate" =>
              \E j \in CallsFor("room_read_markers", calls[i].event_id) :
                  /\ j < i
                  /\ \A l \in 1 .. j :
                        calls[l].op = "room_typing" => calls[l].task # TaskOf(i)

\* the bot's own message was recorded and its receipt sent, after an event
\* that was answered
C24_Witness_OwnMessageReceipt ==
    /\ pc = "recorded"
    /\ event.sender = uid
    /\ Cardinality(CallsFor("room_read_markers", event.event_id)) = 1
    /\ Cardinality(CallsFor("room_read_markers", 1)) = 1
    /\ CallsFor("acreate", 1) # {}
    /\ event.event_id = 2

====
